---- MODULE Spec2Model ----
(***************************************************************************)
(* Atomic memory-access primitives of                                      *)
(* pkgs/kernels/canneal/src/atomic/riscv64/atomic.h, run by several        *)
(* threads on shared words.                                                *)
(*                                                                         *)
(* A word is the little-endian sequence of its bytes (1, 2, 4 or 8 bytes   *)
(* of 0..255), so the arithmetic keeps its width at every size.  An entry  *)
(* point atomic_<op>[_<acq|rel>]_<type> is written <<op, suffix, type>>,   *)
(* e.g. atomic_set_acq_8 is <<"set", "acq", "8">> and atomic_add_int is    *)
(* <<"add", "", "int">>.                                                   *)
(*                                                                         *)
(* Memory follows the release/acquire view semantics of the __atomic       *)
(* built-ins: every location keeps its modification order as a sequence of *)
(* messages, each thread has a view (the newest message of each location   *)
(* it is aware of), a release write publishes the writer's view with the   *)
(* message, an acquire read joins the message's view into the reader's,    *)
(* and a read-modify-write reads the newest message and writes right after *)
(* it.                                                                     *)
(***************************************************************************)
EXTENDS Integers, Sequences, FiniteSets, TLC

(* ---------------------------- bounds ----------------------------------- *)

\* number of threads that run concurrently
NThreads == 2

\* number of calls each thread makes in the repeated-call scenarios
NCalls == 2

Threads == 1..NThreads

(* ----------------------------- words ----------------------------------- *)

\* u_char, u_short, u_int, u_long under LP64: size in bytes
SizeOf(type) ==
    CASE type = "char"  -> 1
      [] type = "short" -> 2
      [] type = "int"   -> 4
      [] type = "long"  -> 8

Types == {"char", "short", "int", "long"}

Byte == 0..255

\* the word of n bytes holding the small number k (k < 256)
Small(k, n) == [i \in 1..n |-> IF i = 1 THEN k ELSE 0]

\* the word of n bytes with every bit set
AllOnes(n) == [i \in 1..n |-> 255]

\* the word of n bytes with only the top bit set
TopBit(n) == [i \in 1..n |-> IF i = n THEN 128 ELSE 0]

RECURSIVE ByteAnd(_, _)
ByteAnd(a, b) ==
    IF a = 0 \/ b = 0 THEN 0
    ELSE (a % 2) * (b % 2) + 2 * ByteAnd(a \div 2, b \div 2)

\* __atomic_fetch_or, __atomic_fetch_and: the new value of the word
WordOr(x, v)  == [i \in 1..Len(x) |-> x[i] + v[i] - ByteAnd(x[i], v[i])]
WordAnd(x, v) == [i \in 1..Len(x) |-> ByteAnd(x[i], v[i])]

\* the ~ operator on a value of Len(v) bytes
WordNot(v) == [i \in 1..Len(v) |-> 255 - v[i]]

\* carry into byte i (1-based) of x + v + cin
RECURSIVE Carry(_, _, _, _)
Carry(x, v, cin, i) ==
    IF i = 1 THEN cin
    ELSE (x[i-1] + v[i-1] + Carry(x, v, cin, i-1)) \div 256

\* __atomic_fetch_add: the new value, modulo 2^(8*Len(x))
WordAdd(x, v) == [i \in 1..Len(x) |-> (x[i] + v[i] + Carry(x, v, 0, i)) % 256]

\* __atomic_fetch_sub: x - v = x + ~v + 1, modulo 2^(8*Len(x))
WordSub(x, v) ==
    [i \in 1..Len(x) |-> (x[i] + (255 - v[i]) + Carry(x, WordNot(v), 1, i)) % 256]

\* integer promotion: a type narrower than int is widened to int (4 bytes)
Promote(v) ==
    IF Len(v) >= 4 THEN v
    ELSE [i \in 1..4 |-> IF i <= Len(v) THEN v[i] ELSE 0]

\* the cast (C_TYPE)(x): conversion to an unsigned type of n bytes
Cast(x, n) == [i \in 1..n |-> x[i]]

\* int: the range of a 32-bit signed integer
INT_MAX == 2147483647
INT_MIN == -2147483647 - 1

\* the cast (u_int)(k) of a signed int: k modulo 2^32, as a 4-byte word
UInt(k) == [i \in 1..4 |-> (k \div (256 ^ (i-1))) % 256]

(* -------------------------- entry points ------------------------------- *)

\* the functions the header defines
AtomicOpFunctions ==
    { <<op, "", ty>> : op \in {"set", "clear", "add", "subtract"}, ty \in Types }

CmpsetFunctions == { <<"cmpset", "", "int">>, <<"cmpset", "", "long">> }

FetchFunctions == { <<"fetchadd", "", "int">>, <<"fetchsubtract", "", "int">> }

\* the load and store functions with ATOMIC_LOAD_ACQ(char, uint8_t) and
\* ATOMIC_STORE_REL(char, uint8_t) left out
LoadStoreFunctions_NoChar ==
    { <<"load", "acq", ty>> : ty \in Types \ {"char"} }
        \cup { <<"store", "rel", ty>> : ty \in Types \ {"char"} }

LoadStoreFunctions ==
    { <<"load", "acq", ty>> : ty \in Types } \cup { <<"store", "rel", ty>> : ty \in Types }

ReadAndClearFunctions ==
    { <<"readandclear", "", "int">>, <<"readandclear", "", "long">> }

Functions ==
    AtomicOpFunctions \cup CmpsetFunctions \cup FetchFunctions
        \cup LoadStoreFunctions \cup ReadAndClearFunctions

\* the #define aliases, each <<alias, the name it expands to>>

\* atomic_<op>_<acq|rel>_char
OrderingAliasesChar ==
    {
      <<<<"set", "acq", "char">>, <<"set", "", "char">>>>,
      <<<<"set", "rel", "char">>, <<"set", "", "char">>>>,
      <<<<"clear", "acq", "char">>, <<"clear", "", "char">>>>,
      <<<<"clear", "rel", "char">>, <<"clear", "", "char">>>>,
      <<<<"add", "acq", "char">>, <<"add", "", "char">>>>,
      <<<<"add", "rel", "char">>, <<"add", "", "char">>>>,
      <<<<"subtract", "acq", "char">>, <<"subtract", "", "char">>>>,
      <<<<"subtract", "rel", "char">>, <<"subtract", "", "char">>>>
    }

\* atomic_<op>_<acq|rel>_short
OrderingAliasesShort ==
    {
      <<<<"set", "acq", "short">>, <<"set", "", "short">>>>,
      <<<<"set", "rel", "short">>, <<"set", "", "short">>>>,
      <<<<"clear", "acq", "short">>, <<"clear", "", "short">>>>,
      <<<<"clear", "rel", "short">>, <<"clear", "", "short">>>>,
      <<<<"add", "acq", "short">>, <<"add", "", "short">>>>,
      <<<<"add", "rel", "short">>, <<"add", "", "short">>>>,
      <<<<"subtract", "acq", "short">>, <<"subtract", "", "short">>>>,
      <<<<"subtract", "rel", "short">>, <<"subtract", "", "short">>>>
    }

\* atomic_<op>_<acq|rel>_int
OrderingAliasesInt ==
    {
      <<<<"set", "acq", "int">>, <<"set", "", "int">>>>,
      <<<<"set", "rel", "int">>, <<"set", "", "int">>>>,
      <<<<"clear", "acq", "int">>, <<"clear", "", "int">>>>,
      <<<<"clear", "rel", "int">>, <<"clear", "", "int">>>>,
      <<<<"add", "acq", "int">>, <<"add", "", "int">>>>,
      <<<<"add", "rel", "int">>, <<"add", "", "int">>>>,
      <<<<"subtract", "acq", "int">>, <<"subtract", "", "int">>>>,
      <<<<"subtract", "rel", "int">>, <<"subtract", "", "int">>>>,
      <<<<"cmpset", "acq", "int">>, <<"cmpset", "", "int">>>>,
      <<<<"cmpset", "rel", "int">>, <<"cmpset", "", "int">>>>
    }

\* atomic_<op>_<acq|rel>_long
OrderingAliasesLong ==
    {
      <<<<"set", "acq", "long">>, <<"set", "", "long">>>>,
      <<<<"set", "rel", "long">>, <<"set", "", "long">>>>,
      <<<<"clear", "acq", "long">>, <<"clear", "", "long">>>>,
      <<<<"clear", "rel", "long">>, <<"clear", "", "long">>>>,
      <<<<"add", "acq", "long">>, <<"add", "", "long">>>>,
      <<<<"add", "rel", "long">>, <<"add", "", "long">>>>,
      <<<<"subtract", "acq", "long">>, <<"subtract", "", "long">>>>,
      <<<<"subtract", "rel", "long">>, <<"subtract", "", "long">>>>,
      <<<<"cmpset", "acq", "long">>, <<"cmpset", "", "long">>>>,
      <<<<"cmpset", "rel", "long">>, <<"cmpset", "", "long">>>>
    }

\* atomic_*_8
WidthAliases8 ==
    {
      <<<<"set", "", "8">>, <<"set", "", "char">>>>,
      <<<<"set", "acq", "8">>, <<"set", "acq", "char">>>>,
      <<<<"set", "rel", "8">>, <<"set", "rel", "char">>>>,
      <<<<"clear", "", "8">>, <<"clear", "", "char">>>>,
      <<<<"clear", "acq", "8">>, <<"clear", "acq", "char">>>>,
      <<<<"clear", "rel", "8">>, <<"clear", "rel", "char">>>>,
      <<<<"add", "", "8">>, <<"add", "", "char">>>>,
      <<<<"add", "acq", "8">>, <<"add", "acq", "char">>>>,
      <<<<"add", "rel", "8">>, <<"add", "rel", "char">>>>,
      <<<<"subtract", "", "8">>, <<"subtract", "", "char">>>>,
      <<<<"subtract", "acq", "8">>, <<"subtract", "acq", "char">>>>,
      <<<<"subtract", "rel", "8">>, <<"subtract", "rel", "char">>>>,
      <<<<"load", "acq", "8">>, <<"load", "acq", "char">>>>,
      <<<<"store", "rel", "8">>, <<"store", "rel", "char">>>>
    }

\* atomic_*_16
WidthAliases16 ==
    {
      <<<<"set", "", "16">>, <<"set", "", "short">>>>,
      <<<<"set", "acq", "16">>, <<"set", "acq", "short">>>>,
      <<<<"set", "rel", "16">>, <<"set", "rel", "short">>>>,
      <<<<"clear", "", "16">>, <<"clear", "", "short">>>>,
      <<<<"clear", "acq", "16">>, <<"clear", "acq", "short">>>>,
      <<<<"clear", "rel", "16">>, <<"clear", "rel", "short">>>>,
      <<<<"add", "", "16">>, <<"add", "", "short">>>>,
      <<<<"add", "acq", "16">>, <<"add", "acq", "short">>>>,
      <<<<"add", "rel", "16">>, <<"add", "rel", "short">>>>,
      <<<<"subtract", "", "16">>, <<"subtract", "", "short">>>>,
      <<<<"subtract", "acq", "16">>, <<"subtract", "acq", "short">>>>,
      <<<<"subtract", "rel", "16">>, <<"subtract", "rel", "short">>>>,
      <<<<"load", "acq", "16">>, <<"load", "acq", "short">>>>,
      <<<<"store", "rel", "16">>, <<"store", "rel", "short">>>>
    }

\* atomic_*_32
WidthAliases32 ==
    {
      <<<<"set", "", "32">>, <<"set", "", "int">>>>,
      <<<<"set", "acq", "32">>, <<"set", "acq", "int">>>>,
      <<<<"set", "rel", "32">>, <<"set", "rel", "int">>>>,
      <<<<"clear", "", "32">>, <<"clear", "", "int">>>>,
      <<<<"clear", "acq", "32">>, <<"clear", "acq", "int">>>>,
      <<<<"clear", "rel", "32">>, <<"clear", "rel", "int">>>>,
      <<<<"add", "", "32">>, <<"add", "", "int">>>>,
      <<<<"add", "acq", "32">>, <<"add", "acq", "int">>>>,
      <<<<"add", "rel", "32">>, <<"add", "rel", "int">>>>,
      <<<<"subtract", "", "32">>, <<"subtract", "", "int">>>>,
      <<<<"subtract", "acq", "32">>, <<"subtract", "acq", "int">>>>,
      <<<<"subtract", "rel", "32">>, <<"subtract", "rel", "int">>>>,
      <<<<"load", "acq", "32">>, <<"load", "acq", "int">>>>,
      <<<<"store", "rel", "32">>, <<"store", "rel", "int">>>>,
      <<<<"cmpset", "", "32">>, <<"cmpset", "", "int">>>>,
      <<<<"cmpset", "acq", "32">>, <<"cmpset", "acq", "int">>>>,
      <<<<"cmpset", "rel", "32">>, <<"cmpset", "rel", "int">>>>,
      <<<<"readandclear", "", "32">>, <<"readandclear", "", "int">>>>,
      <<<<"fetchadd", "", "32">>, <<"fetchadd", "", "int">>>>,
      <<<<"fetchsubtract", "", "32">>, <<"fetchsubtract", "", "int">>>>
    }

\* atomic_*_64
WidthAliases64 ==
    {
      <<<<"set", "", "64">>, <<"set", "", "long">>>>,
      <<<<"set", "acq", "64">>, <<"set", "acq", "long">>>>,
      <<<<"set", "rel", "64">>, <<"set", "rel", "long">>>>,
      <<<<"clear", "", "64">>, <<"clear", "", "long">>>>,
      <<<<"clear", "acq", "64">>, <<"clear", "acq", "long">>>>,
      <<<<"clear", "rel", "64">>, <<"clear", "rel", "long">>>>,
      <<<<"add", "", "64">>, <<"add", "", "long">>>>,
      <<<<"add", "acq", "64">>, <<"add", "acq", "long">>>>,
      <<<<"add", "rel", "64">>, <<"add", "rel", "long">>>>,
      <<<<"subtract", "", "64">>, <<"subtract", "", "long">>>>,
      <<<<"subtract", "acq", "64">>, <<"subtract", "acq", "long">>>>,
      <<<<"subtract", "rel", "64">>, <<"subtract", "rel", "long">>>>,
      <<<<"load", "acq", "64">>, <<"load", "acq", "long">>>>,
      <<<<"store", "rel", "64">>, <<"store", "rel", "long">>>>,
      <<<<"cmpset", "", "64">>, <<"cmpset", "", "long">>>>,
      <<<<"cmpset", "acq", "64">>, <<"cmpset", "acq", "long">>>>,
      <<<<"cmpset", "rel", "64">>, <<"cmpset", "rel", "long">>>>,
      <<<<"readandclear", "", "64">>, <<"readandclear", "", "long">>>>
    }

\* atomic_*_ptr with atomic_clear_ptr expanding to atomic_set_long
WidthAliasesPtrMiswired ==
    {
      <<<<"set", "", "ptr">>, <<"set", "", "long">>>>,
      <<<<"set", "acq", "ptr">>, <<"set", "acq", "long">>>>,
      <<<<"set", "rel", "ptr">>, <<"set", "rel", "long">>>>,
      <<<<"clear", "", "ptr">>, <<"set", "", "long">>>>,
      <<<<"clear", "acq", "ptr">>, <<"clear", "acq", "long">>>>,
      <<<<"clear", "rel", "ptr">>, <<"clear", "rel", "long">>>>,
      <<<<"add", "", "ptr">>, <<"add", "", "long">>>>,
      <<<<"add", "acq", "ptr">>, <<"add", "acq", "long">>>>,
      <<<<"add", "rel", "ptr">>, <<"add", "rel", "long">>>>,
      <<<<"subtract", "", "ptr">>, <<"subtract", "", "long">>>>,
      <<<<"subtract", "acq", "ptr">>, <<"subtract", "acq", "long">>>>,
      <<<<"subtract", "rel", "ptr">>, <<"subtract", "rel", "long">>>>,
      <<<<"load", "acq", "ptr">>, <<"load", "acq", "long">>>>,
      <<<<"store", "rel", "ptr">>, <<"store", "rel", "long">>>>,
      <<<<"cmpset", "", "ptr">>, <<"cmpset", "", "long">>>>,
      <<<<"cmpset", "acq", "ptr">>, <<"cmpset", "acq", "long">>>>,
      <<<<"cmpset", "rel", "ptr">>, <<"cmpset", "rel", "long">>>>,
      <<<<"readandclear", "", "ptr">>, <<"readandclear", "", "long">>>>
    }

\* atomic_*_ptr
WidthAliasesPtr ==
    {
      <<<<"set", "", "ptr">>, <<"set", "", "long">>>>,
      <<<<"set", "acq", "ptr">>, <<"set", "acq", "long">>>>,
      <<<<"set", "rel", "ptr">>, <<"set", "rel", "long">>>>,
      <<<<"clear", "", "ptr">>, <<"clear", "", "long">>>>,
      <<<<"clear", "acq", "ptr">>, <<"clear", "acq", "long">>>>,
      <<<<"clear", "rel", "ptr">>, <<"clear", "rel", "long">>>>,
      <<<<"add", "", "ptr">>, <<"add", "", "long">>>>,
      <<<<"add", "acq", "ptr">>, <<"add", "acq", "long">>>>,
      <<<<"add", "rel", "ptr">>, <<"add", "rel", "long">>>>,
      <<<<"subtract", "", "ptr">>, <<"subtract", "", "long">>>>,
      <<<<"subtract", "acq", "ptr">>, <<"subtract", "acq", "long">>>>,
      <<<<"subtract", "rel", "ptr">>, <<"subtract", "rel", "long">>>>,
      <<<<"load", "acq", "ptr">>, <<"load", "acq", "long">>>>,
      <<<<"store", "rel", "ptr">>, <<"store", "rel", "long">>>>,
      <<<<"cmpset", "", "ptr">>, <<"cmpset", "", "long">>>>,
      <<<<"cmpset", "acq", "ptr">>, <<"cmpset", "acq", "long">>>>,
      <<<<"cmpset", "rel", "ptr">>, <<"cmpset", "rel", "long">>>>,
      <<<<"readandclear", "", "ptr">>, <<"readandclear", "", "long">>>>
    }

OrderingAliases ==
    OrderingAliasesChar \cup OrderingAliasesShort \cup OrderingAliasesInt
        \cup OrderingAliasesLong

WidthAliases ==
    WidthAliases8 \cup WidthAliases16 \cup WidthAliases32 \cup WidthAliases64
        \cup WidthAliasesPtr

Aliases == OrderingAliases \cup WidthAliases

AliasNames == { a[1] : a \in Aliases }

Target(n) == (CHOOSE a \in Aliases : a[1] = n)[2]

\* macro expansion of an entry-point name down to the function it calls
RECURSIVE Resolve(_)
Resolve(n) == IF n \in AliasNames THEN Resolve(Target(n)) ELSE n

EntryPoints == Functions \cup AliasNames


\* the u_<TYPE> a function works on
TypeOf(f) == f[3]

(* --------------------------- the functions ----------------------------- *)

RELAXED == "__ATOMIC_RELAXED"
ACQUIRE == "__ATOMIC_ACQUIRE"
RELEASE == "__ATOMIC_RELEASE"
SEQ_CST == "__ATOMIC_SEQ_CST"

IsAcquire(ord) == ord \in {ACQUIRE, SEQ_CST}
IsRelease(ord) == ord \in {RELEASE, SEQ_CST}

\* what a function returns when it returns nothing
void == <<>>

\* ADJ_V with clear's complement left out
ADJ_V_NoComplement(op, v) == Cast(Promote(v), Len(v))

\* ATOMIC_OP's ADJ_V and its cast: (C_TYPE)(v), and (C_TYPE)(~v) for clear,
\* where ~ applies to the promoted v
ADJ_V(op, v) ==
    IF op = "clear" THEN Cast(WordNot(Promote(v)), Len(v))
    ELSE Cast(Promote(v), Len(v))

\* ATOMIC_OP with subtract instantiated with the add built-in
ATOMIC_OP_SubtractAdds(op, old, v) ==
    [write |-> TRUE,
     new   |-> CASE op = "set"      -> WordOr(old, v)
                 [] op = "clear"    -> WordAnd(old, v)
                 [] op = "add"      -> WordAdd(old, v)
                 [] op = "subtract" -> WordAdd(old, v),
     ret   |-> void,
     ord   |-> SEQ_CST,
     expected |-> void]

\* the result of one function on a word holding old: whether it writes, the
\* value written, the value returned and the memory order it is performed with

\* atomic_<set|clear|add|subtract>_<type>(p, v), v already adjusted
ATOMIC_OP(op, old, v) ==
    [write |-> TRUE,
     new   |-> CASE op = "set"      -> WordOr(old, v)
                 [] op = "clear"    -> WordAnd(old, v)
                 [] op = "add"      -> WordAdd(old, v)
                 [] op = "subtract" -> WordSub(old, v),
     ret   |-> void,
     ord   |-> SEQ_CST,
     expected |-> void]

\* atomic_cmpset with exp and src passed to the built-in in each other's place
atomic_cmpset_Swapped(old, expected, src) ==
    IF old = src
    THEN [write |-> TRUE, new |-> expected, ret |-> 1, ord |-> SEQ_CST,
          expected |-> expected]
    ELSE [write |-> FALSE, new |-> old, ret |-> 0, ord |-> RELAXED,
          expected |-> old]

\* atomic_cmpset with the value read stored back to the word when the
\* exchange fails
atomic_cmpset_StoresBack(old, expected, src) ==
    IF old = expected
    THEN [write |-> TRUE, new |-> src, ret |-> 1, ord |-> SEQ_CST,
          expected |-> expected]
    ELSE [write |-> TRUE, new |-> old, ret |-> 0, ord |-> RELAXED,
          expected |-> old]

\* atomic_cmpset_<int|long>(dst, exp, src): strong compare-exchange on the
\* local copy of exp, which receives the value read when the exchange fails
atomic_cmpset(old, expected, src) ==
    IF old = expected
    THEN [write |-> TRUE, new |-> src, ret |-> 1, ord |-> SEQ_CST,
          expected |-> expected]
    ELSE [write |-> FALSE, new |-> old, ret |-> 0, ord |-> RELAXED,
          expected |-> old]

\* atomic_fetchadd_int(p, v)
atomic_fetchadd_int(old, v) ==
    [write |-> TRUE, new |-> WordAdd(old, v), ret |-> old, ord |-> SEQ_CST,
     expected |-> void]

\* atomic_fetchsubtract_int(p, v), given the word (u_int)(-v)
atomic_fetchsubtract_int(old, negv) ==
    [write |-> TRUE, new |-> WordAdd(old, negv), ret |-> old, ord |-> SEQ_CST,
     expected |-> void]

\* atomic_load_acq with the load done with __ATOMIC_RELAXED
atomic_load_acq_Relaxed(old) ==
    [write |-> FALSE, new |-> old, ret |-> old, ord |-> RELAXED,
     expected |-> void]

\* atomic_load_acq_<type>(p)
atomic_load_acq(old) ==
    [write |-> FALSE, new |-> old, ret |-> old, ord |-> ACQUIRE,
     expected |-> void]

\* atomic_store_rel_<type>(p, v)
atomic_store_rel(old, v) ==
    [write |-> TRUE, new |-> v, ret |-> void, ord |-> RELEASE,
     expected |-> void]

\* atomic_readandclear done as a load: the word is read but not cleared
atomic_readandclear_LoadOnly(old) ==
    [write |-> FALSE, new |-> old, ret |-> old, ord |-> SEQ_CST,
     expected |-> void]

\* atomic_readandclear_<int|long>(addr)
atomic_readandclear(old) ==
    [write |-> TRUE, new |-> [i \in 1..Len(old) |-> 0], ret |-> old,
     ord |-> SEQ_CST, expected |-> void]

\* the unary minus of -v on a signed int: every outcome but INT_MIN's is
\* the negation; -INT_MIN overflows, which is undefined: the build either
\* wraps to INT_MIN or traps
NegOutcomes(v) ==
    IF v = INT_MIN THEN { [trap |-> FALSE, val |-> INT_MIN],
                          [trap |-> TRUE,  val |-> 0] }
    ELSE { [trap |-> FALSE, val |-> 0 - v] }

\* the result of function f whose frame is fr on a word holding old
Effect(f, fr, old) ==
    CASE f[1] \in {"set", "clear", "add", "subtract"} -> ATOMIC_OP(f[1], old, fr.v)
      [] f[1] = "cmpset"        -> atomic_cmpset(old, fr.expected, fr.src)
      [] f[1] = "fetchadd"      -> atomic_fetchadd_int(old, fr.v)
      [] f[1] = "fetchsubtract" -> atomic_fetchsubtract_int(old, fr.v)
      [] f[1] = "load"          -> atomic_load_acq(old)
      [] f[1] = "store"         -> atomic_store_rel(old, fr.v)
      [] f[1] = "readandclear"  -> atomic_readandclear(old)

\* the built-ins that read the word (all but __atomic_store)
Reads(f) == f[1] # "store"

(* ------------------------------ state ---------------------------------- *)

\* the shared words: p is the word the calls are about, q a second word
Locs == {"p", "q"}

VARIABLES
    hist,    \* hist[l]: the messages written to word l, in modification order
    tview,   \* tview[t][l]: index in hist[l] of the newest message t knows of
    prog,    \* prog[t]: the calls thread t makes, in program order
    idx,     \* idx[t]: position in prog[t] of t's current or next call
    pc,      \* pc[t]: "idle", "called" (in the function, before the built-in),
             \*        "performed" (after the built-in), "trapped"
    frame,   \* frame[t]: the arguments, locals and result of t's current call
    rets,    \* rets[t]: the frames of the calls t has returned from
    dig,     \* dig[t]: thread t's call of SHA1_Digest: position, arguments,
             \*         output buffer and the library calls made so far
    shactx,  \* shactx[c]: the contents of the memory of SHA_CTX c
    results  \* the input bytes and digest of every call that has returned

atomicVars == <<hist, tview, prog, idx, pc, frame, rets>>

digestVars == <<dig, shactx, results>>

vars == <<hist, tview, prog, idx, pc, frame, rets, dig, shactx, results>>

NoFrame ==
    [name |-> <<>>, fn |-> <<>>, p |-> "p", arg |-> <<>>, v |-> <<>>,
     expected |-> <<>>, src |-> <<>>, old |-> <<>>, new |-> <<>>, ret |-> <<>>,
     wrote |-> FALSE, ord |-> "", rts |-> 0, wts |-> 0]

\* the newest message of word l and its value
Latest(l) == hist[l][Len(hist[l])]
Value(l)  == Latest(l).val

Join(v1, v2) == [l \in Locs |-> IF v1[l] >= v2[l] THEN v1[l] ELSE v2[l]]

\* the state of the words and threads: word p holds x and word q holds y
StartAtomic(x, y, programs) ==
    /\ hist  = [l \in Locs |->
                  << [val |-> IF l = "p" THEN x ELSE y,
                      view |-> [m \in Locs |-> 1]] >>]
    /\ tview = [t \in Threads |-> [l \in Locs |-> 1]]
    /\ prog  = programs
    /\ idx   = [t \in Threads |-> 1]
    /\ pc    = [t \in Threads |-> "idle"]
    /\ frame = [t \in Threads |-> NoFrame]
    /\ rets  = [t \in Threads |-> <<>>]

\* no call of SHA1_Digest is under way
NoDigest == [at |-> "idle", data |-> <<>>, len |-> 0, out |-> <<>>, log |-> <<>>]

\* the state SHA1_Digest starts from: nothing called yet, the memory of
\* every SHA_CTX holding g
StartDigest(g) ==
    /\ dig = [t \in Threads |-> NoDigest]
    /\ shactx = [c \in Threads |-> g]
    /\ results = {}

\* the state the threads start from: word p holds x and word q holds y
Start(x, y, programs) ==
    /\ StartDigest([h |-> <<>>, len |-> 0])
    /\ StartAtomic(x, y, programs)

(* ----------------------------- actions --------------------------------- *)

\* ReadChoices of a read-modify-write done as a separate load and store: the
\* load may return any message the thread can still see
ReadChoices_Split(t, f, fr) == tview[t][fr.p]..Len(hist[fr.p])

\* the messages of word fr.p that the built-in of function f may read: a
\* read-modify-write reads the newest one; a load any one not older than the
\* thread's view; a compare-exchange that fails is a load of a value other
\* than expected, one that succeeds a read-modify-write
ReadChoices(t, f, fr) ==
    LET n == Len(hist[fr.p]) IN
    CASE f[1] = "load"   -> tview[t][fr.p]..n
      [] f[1] = "cmpset" ->
            { i \in tview[t][fr.p]..n :
                \/ hist[fr.p][i].val # fr.expected
                \/ i = n }
      [] OTHER -> {n}

\* the frame of a call of function f under entry-point name n with
\* arguments a and b: the arguments are converted and the locals initialised
\* (negv is the value of -v in atomic_fetchsubtract_int)
Enter(n, f, l, a, b, negv) ==
    [NoFrame EXCEPT
       !.name = n, !.fn = f, !.p = l, !.arg = a,
       !.v = CASE f[1] \in {"set", "clear", "add", "subtract"} -> ADJ_V(f[1], a)
               [] f[1] = "fetchsubtract" -> UInt(negv)
               [] f[1] \in {"fetchadd", "store"} -> a
               [] OTHER -> <<>>,
       !.expected = IF f[1] = "cmpset" THEN a ELSE <<>>,
       !.src = IF f[1] = "cmpset" THEN b ELSE <<>>]

\* thread t enters the function its next call names, after macro expansion
Call(t) ==
    /\ pc[t] = "idle"
    /\ idx[t] <= Len(prog[t])
    /\ LET c == prog[t][idx[t]]
           f == Resolve(c.name)
       IN /\ f \in Functions
          /\ SizeOf(TypeOf(f)) = Len(Value(c.p))
          /\ \E neg \in (IF f[1] = "fetchsubtract" THEN NegOutcomes(c.a)
                         ELSE { [trap |-> FALSE, val |-> 0] }) :
               /\ pc' = [pc EXCEPT ![t] = IF neg.trap THEN "trapped" ELSE "called"]
               /\ frame' = [frame EXCEPT ![t] = Enter(c.name, f, c.p, c.a, c.b, neg.val)]
    /\ UNCHANGED <<hist, tview, prog, idx, rets>>
    /\ UNCHANGED digestVars

\* the built-in of t's call takes effect: one atomic step
Builtin(t) ==
    /\ pc[t] = "called"
    /\ LET fr == frame[t]
           f  == fr.fn
           l  == fr.p
       IN \E i \in ReadChoices(t, f, fr) :
            LET m  == hist[l][i]
                e  == Effect(f, fr, m.val)
                k  == Len(hist[l]) + 1
                v1 == IF Reads(f)
                      THEN (IF IsAcquire(e.ord) THEN Join(tview[t], m.view)
                            ELSE tview[t])
                      ELSE tview[t]
                v2 == [v1 EXCEPT ![l] = IF e.write THEN k
                                         ELSE IF Reads(f) /\ i > v1[l] THEN i
                                         ELSE v1[l]]
                mv == IF IsRelease(e.ord) THEN v2
                      ELSE [x \in Locs |-> IF x = l THEN k ELSE 1]
            IN /\ hist' = IF e.write
                          THEN [hist EXCEPT ![l] = Append(@, [val |-> e.new, view |-> mv])]
                          ELSE hist
               /\ tview' = [tview EXCEPT ![t] = v2]
               /\ frame' = [frame EXCEPT ![t] =
                    [fr EXCEPT !.old = IF Reads(f) THEN m.val ELSE <<>>,
                               !.new = IF e.write THEN e.new ELSE <<>>,
                               !.wrote = e.write,
                               !.ret = e.ret, !.ord = e.ord,
                               !.expected = IF f[1] = "cmpset" THEN e.expected ELSE <<>>,
                               !.rts = IF Reads(f) THEN i ELSE 0,
                               !.wts = IF e.write THEN k ELSE 0]]
    /\ pc' = [pc EXCEPT ![t] = "performed"]
    /\ UNCHANGED <<prog, idx, rets>>
    /\ UNCHANGED digestVars

\* thread t returns from the function to its caller
Return(t) ==
    /\ pc[t] = "performed"
    /\ rets' = [rets EXCEPT ![t] = Append(@, frame[t])]
    /\ frame' = [frame EXCEPT ![t] = NoFrame]
    /\ pc' = [pc EXCEPT ![t] = "idle"]
    /\ idx' = [idx EXCEPT ![t] = @ + 1]
    /\ UNCHANGED <<hist, tview, prog>>
    /\ UNCHANGED digestVars

Next == \E t \in Threads : Call(t) \/ Builtin(t) \/ Return(t)

(* ------------------------ the calls of a caller ------------------------ *)

\* a call of entry point n on word l with arguments a and b
MkCall(n, l, a, b) == [name |-> n, p |-> l, a |-> a, b |-> b]

\* argument values of a type: 0, 1, the top bit alone, all bits, 0xA5..A5
Vals(ty) ==
    LET n == SizeOf(ty)
    IN { Small(0, n), Small(1, n), TopBit(n), AllOnes(n), [i \in 1..n |-> 165] }

\* int arguments of atomic_fetchsubtract_int
IntVals == { 0, 1, -1, INT_MAX, INT_MIN }

\* the calls of entry point n on word l, over the argument values
CallsOf(n, l) ==
    LET f  == Resolve(n)
        ty == TypeOf(f)
    IN CASE f[1] = "cmpset" ->
              { MkCall(n, l, a, b) : a \in Vals(ty), b \in Vals(ty) }
         [] f[1] = "fetchsubtract" ->
              { MkCall(n, l, a, <<>>) : a \in IntVals }
         [] f[1] \in {"load", "readandclear"} ->
              { MkCall(n, l, <<>>, <<>>) }
         [] OTHER ->
              { MkCall(n, l, a, <<>>) : a \in Vals(ty) }

\* entry points that work on a word of type ty
EntryPointsOf(ty) == { n \in EntryPoints : TypeOf(Resolve(n)) = ty }

\* one thread calls any entry point once while a second thread may store to
\* the same word
InitOps ==
    \E ty \in Types :
      \E x \in Vals(ty), n \in EntryPointsOf(ty) :
        \E c \in CallsOf(n, "p"),
           o \in { <<>> } \cup { << MkCall(<<"store", "rel", ty>>, "p", a, <<>>) >> :
                                   a \in { Small(1, SizeOf(ty)), AllOnes(SizeOf(ty)) } } :
          Start(x, Small(0, SizeOf(ty)),
                [t \in Threads |-> IF t = 1 THEN <<c>> ELSE IF t = 2 THEN o ELSE <<>>])

Init == InitOps

Spec == Init /\ [][Next]_vars

\* every thread calls fetch-add of 1 on the same 32-bit word NCalls times
InitFetchAdd ==
    \E x \in { Small(0, 4), TopBit(4), AllOnes(4) }, n \in { <<"fetchadd", "", "int">>, <<"fetchadd", "", "32">> } :
        Start(x, Small(0, 4),
              [t \in Threads |-> [i \in 1..NCalls |-> MkCall(n, "p", Small(1, 4), <<>>)]])

SpecFetchAdd == InitFetchAdd /\ [][Next]_vars

\* every thread makes NCalls calls on the same word, alternately add of a
\* and subtract of b, odd threads starting with add and even ones with
\* subtract
InitAddSubtract ==
    \E ty \in Types :
      \E xab \in { << Small(0, SizeOf(ty)), Small(1, SizeOf(ty)), AllOnes(SizeOf(ty)) >>,
                   << AllOnes(SizeOf(ty)), TopBit(SizeOf(ty)), Small(2, SizeOf(ty)) >> } :
       LET x == xab[1]
           a == xab[2]
           b == xab[3]
       IN
        Start(x, Small(0, SizeOf(ty)),
              [t \in Threads |->
                 [i \in 1..NCalls |->
                    IF (i + t) % 2 = 0 THEN MkCall(<<"add", "", ty>>, "p", a, <<>>)
                    ELSE MkCall(<<"subtract", "", ty>>, "p", b, <<>>)]])

SpecAddSubtract == InitAddSubtract /\ [][Next]_vars

\* message passing: thread 1 writes word q NCalls times and then
\* store-releases the flag 1 to word p; every other thread load-acquires p
\* and then reads q
InitMessagePassing ==
    \E ty \in Types :
      \E w \in { <<"store", "rel", ty>>, <<"add", "", ty>>, <<"set", "", ty>> },
         d \in { Small(2, SizeOf(ty)), TopBit(SizeOf(ty)) } :
        Start(Small(0, SizeOf(ty)), Small(0, SizeOf(ty)),
              [t \in Threads |->
                 IF t = 1
                 THEN [i \in 1..(NCalls + 1) |->
                         IF i <= NCalls THEN MkCall(w, "q", d, <<>>)
                         ELSE MkCall(<<"store", "rel", ty>>, "p", Small(1, SizeOf(ty)), <<>>)]
                 ELSE << MkCall(<<"load", "acq", ty>>, "p", <<>>, <<>>),
                         MkCall(<<"load", "acq", ty>>, "q", <<>>, <<>>) >>])

SpecMessagePassing == InitMessagePassing /\ [][Next]_vars

\* every thread calls compare-and-swap NCalls times on the same word with
\* the expected value the word starts with and a new value different from it
InitCmpsetRace ==
    \E nm \in { <<"cmpset", "", "int">>, <<"cmpset", "acq", "ptr">> } :
      \E same \in BOOLEAN :
        LET n == SizeOf(TypeOf(Resolve(nm)))
            e == IF same THEN AllOnes(n) ELSE Small(0, n)
        IN Start(e, Small(0, n),
                 [t \in Threads |->
                    [i \in 1..NCalls |->
                       MkCall(nm, "p", e, IF same THEN Small(1, n) ELSE Small(t, n))]])

SpecCmpsetRace == InitCmpsetRace /\ [][Next]_vars

\* the word of n bytes with only bit k (0 the lowest) set
BitWord(k, n) == [i \in 1..n |-> IF i = (k \div 8) + 1 THEN 2 ^ (k % 8) ELSE 0]

\* flags: odd threads are producers, each call setting one bit no other call
\* sets; even threads are consumers calling read-and-clear; the word starts
\* at 0
InitFlags ==
    \E st \in { << <<"set", "", "int">>, <<"readandclear", "", "int">> >>,
                 << <<"set", "rel", "64">>, <<"readandclear", "", "ptr">> >> } :
        LET n == SizeOf(TypeOf(Resolve(st[1])))
        IN Start(Small(0, n), Small(0, n),
                 [t \in Threads |->
                    [i \in 1..NCalls |->
                       IF t % 2 = 1
                       THEN MkCall(st[1], "p", BitWord((t - 1) * NCalls + (i - 1), n), <<>>)
                       ELSE MkCall(st[2], "p", <<>>, <<>>)]])

SpecFlags == InitFlags /\ [][Next]_vars

\* the bits thread t owns: bits 2(t-1) and 2(t-1)+1 of the word
RangeOf(t) == { 2 * (t - 1), 2 * (t - 1) + 1 }

\* every thread makes NCalls calls on the same word, alternately a set of
\* both bits of its own range and a clear of the lower one
InitDisjointMasks ==
    \E ty \in Types :
      \E k \in {0, 1} :
        LET n == SizeOf(ty)
            x == IF k = 0 THEN Small(0, n) ELSE AllOnes(n)
        IN Start(x, Small(0, n),
                 [t \in Threads |->
                    [i \in 1..NCalls |->
                       IF (i + k + t) % 2 = 0
                       THEN MkCall(<<"set", "", ty>>, "p",
                                   WordOr(BitWord(2 * (t - 1), n), BitWord(2 * (t - 1) + 1, n)),
                                   <<>>)
                       ELSE MkCall(<<"clear", "", ty>>, "p", BitWord(2 * (t - 1), n), <<>>)]])

SpecDisjointMasks == InitDisjointMasks /\ [][Next]_vars

(* --------------------------- SHA1_Digest ------------------------------- *)

\* The hashing library behind openssl/sha.h.  A SHA_CTX holds the running
\* 20-byte hash state h and the number len of bytes absorbed.  Absorb stands
\* for the library's compression: the state after one more byte depends on
\* the whole state before, on the byte and so on the order of the bytes.

SHA_DIGEST_LENGTH == 20

\* h0..h4 of SHA-1, most significant byte first
InitialHash ==
    << 103, 69, 35, 1,   239, 205, 171, 137,   152, 186, 220, 254,
       16, 50, 84, 118,   195, 210, 225, 240 >>

Absorb(h, b) ==
    [i \in 1..SHA_DIGEST_LENGTH |->
        (3 * h[i] + h[(i % SHA_DIGEST_LENGTH) + 1] + b + i) % 256]

\* SHA1_Init(c): c is set to the initial state, whatever it held
SHA1_Init(c) == [h |-> InitialHash, len |-> 0]

\* SHA1_Update(c, data, len) with the bytes fed: they are absorbed in order
RECURSIVE SHA1_Update(_, _)
SHA1_Update(c, bytes) ==
    IF bytes = <<>> THEN c
    ELSE SHA1_Update([h |-> Absorb(c.h, Head(bytes)), len |-> c.len + 1],
                     Tail(bytes))

\* SHA1_Final(md, c): the padding and the length are absorbed and the state
\* is written to md
SHA1_Final(c) == Absorb(Absorb(c.h, 128), c.len % 256)

\* SHA1_Digest's "SHA_CTX sha" left uninitialised until SHA1_Init
Digest_Init_Skipped(c) == c

\* SHA1_Digest: SHA1_Init(&sha)
Digest_Init(c) == SHA1_Init(c)

\* the bytes SHA1_Update is given with len one short
UpdateBytes_Short(data, len) == SubSeq(data, 1, len - 1)

\* SHA1_Digest: the bytes SHA1_Update(&sha, data, len) is given
UpdateBytes(data, len) == SubSeq(data, 1, len)

\* "SHA_CTX sha" declared static: one context for all calls
CtxOf_Static(t) == 1

\* SHA1_Digest: "SHA_CTX sha" is a local of the call, on the stack of the
\* calling thread
CtxOf(t) == t

\* the buffers SHA1_Digest is called on: the data and the length given
DigestInputs ==
    { [data |-> <<97, 98>>, len |-> 2],
      [data |-> <<98, 97>>, len |-> 2],
      [data |-> <<97, 98>>, len |-> 1] }

\* thread t calls SHA1_Digest(data, len, digest) on buffers of its own
DigestCall(t) ==
    /\ dig[t].at = "idle"
    /\ \E in \in DigestInputs :
         dig' = [dig EXCEPT ![t] =
                   [at |-> "entered", data |-> in.data, len |-> in.len,
                    out |-> <<>>, log |-> <<>>]]
    /\ UNCHANGED <<shactx, results>>
    /\ UNCHANGED atomicVars

\* SHA1_Init(&sha)
DigestInit(t) ==
    /\ dig[t].at = "entered"
    /\ shactx' = [shactx EXCEPT ![CtxOf(t)] = Digest_Init(@)]
    /\ dig' = [dig EXCEPT ![t].at = "inited",
                          ![t].log = Append(@, [fn |-> "SHA1_Init", c |-> CtxOf(t),
                                                bytes |-> <<>>])]
    /\ UNCHANGED results
    /\ UNCHANGED atomicVars

\* SHA1_Update(&sha, data, len)
DigestUpdate(t) ==
    /\ dig[t].at = "inited"
    /\ shactx' = [shactx EXCEPT ![CtxOf(t)] =
                     SHA1_Update(@, UpdateBytes(dig[t].data, dig[t].len))]
    /\ dig' = [dig EXCEPT ![t].at = "updated",
                          ![t].log = Append(@, [fn |-> "SHA1_Update", c |-> CtxOf(t),
                                                bytes |-> UpdateBytes(dig[t].data, dig[t].len)])]
    /\ UNCHANGED results
    /\ UNCHANGED atomicVars

\* SHA1_Final(digest, &sha)
DigestFinal(t) ==
    /\ dig[t].at = "updated"
    /\ dig' = [dig EXCEPT ![t].at = "finalized",
                          ![t].out = SHA1_Final(shactx[CtxOf(t)]),
                          ![t].log = Append(@, [fn |-> "SHA1_Final", c |-> CtxOf(t),
                                                bytes |-> <<>>])]
    /\ UNCHANGED <<shactx, results>>
    /\ UNCHANGED atomicVars

\* SHA1_Digest returns: the caller has the digest of its input
DigestReturn(t) ==
    /\ dig[t].at = "finalized"
    /\ results' = results \cup
                    { [bytes |-> SubSeq(dig[t].data, 1, dig[t].len), digest |-> dig[t].out] }
    /\ dig' = [dig EXCEPT ![t] = NoDigest]
    /\ UNCHANGED shactx
    /\ UNCHANGED atomicVars

NextDigest ==
    \E t \in Threads :
        \/ DigestCall(t)
        \/ DigestInit(t)
        \/ DigestUpdate(t)
        \/ DigestFinal(t)
        \/ DigestReturn(t)

\* what the stack holds where "SHA_CTX sha" will lie, before the first call
StackGarbage ==
    { [h |-> [i \in 1..SHA_DIGEST_LENGTH |-> 0], len |-> 0],
      [h |-> [i \in 1..SHA_DIGEST_LENGTH |-> 255], len |-> 7] }

\* the threads call SHA1_Digest again and again, each on its own buffers
InitDigest ==
    /\ \E g \in StackGarbage : StartDigest(g)
    /\ StartAtomic(Small(0, 4), Small(0, 4), [t \in Threads |-> <<>>])

SpecDigest == InitDigest /\ [][NextDigest]_vars


(* --------------------------- properties -------------------------------- *)

Range(sq) == { sq[i] : i \in 1..Len(sq) }

\* the frames of the calls whose built-in has taken effect
DoneFrames ==
    { frame[t] : t \in { u \in Threads : pc[u] = "performed" } }
        \cup UNION { Range(rets[t]) : t \in Threads }

\* the word p of a frame held right before and right after the frame's write
Before(fr) == hist[fr.p][fr.wts - 1].val
After(fr)  == hist[fr.p][fr.wts].val

\* bit i (0 the lowest) of a word
Bit(w, i) == (w[(i \div 8) + 1] \div (2 ^ (i % 8))) % 2

\* C2: a compare-and-swap returns true exactly when the word holds the
\* expected value at the instant of the exchange, and a true return leaves the
\* new value in the word right after the value it read
C2_CmpsetIffEqual ==
    \A fr \in DoneFrames :
        fr.fn[1] = "cmpset" =>
            /\ fr.ret \in {0, 1}
            /\ (fr.ret = 1) <=> (hist[fr.p][fr.rts].val = fr.arg)
            /\ fr.ret = 1 => /\ fr.wts = fr.rts + 1
                             /\ After(fr) = fr.src
            /\ fr.ret = 0 => ~fr.wrote

\* a compare-and-swap succeeded on a value another thread stored after the
\* call was entered
C2_Witness ==
    \E fr \in DoneFrames :
        /\ fr.fn[1] = "cmpset"
        /\ fr.ret = 1
        /\ fr.rts = 2
        /\ hist[fr.p][1].val # fr.arg
        /\ fr.src # fr.arg

\* C4: read-and-clear returns the value the word held right before its
\* write and writes zero, with no other write in between
C4_ReadAndClearAtomic ==
    \A fr \in DoneFrames :
        fr.fn[1] = "readandclear" =>
            /\ fr.wrote
            /\ fr.rts = fr.wts - 1
            /\ fr.ret = Before(fr)
            /\ \A i \in 1..Len(After(fr)) : After(fr)[i] = 0

\* read-and-clear returned a nonzero value another thread had just stored
C4_Witness ==
    \E fr \in DoneFrames :
        /\ fr.fn[1] = "readandclear"
        /\ fr.wts = 3
        /\ fr.ret # hist[fr.p][1].val
        /\ \E i \in 1..Len(fr.ret) : fr.ret[i] # 0

\* C5: at every width set leaves old OR v and clear leaves old AND NOT v in
\* the word, bit by bit, in a word of the same width
C5_SetClearBits ==
    \A fr \in DoneFrames :
        fr.fn[1] \in {"set", "clear"} =>
            /\ fr.wrote
            /\ Len(After(fr)) = SizeOf(TypeOf(fr.fn))
            /\ Len(Before(fr)) = SizeOf(TypeOf(fr.fn))
            /\ \A i \in 0..(8 * SizeOf(TypeOf(fr.fn)) - 1) :
                 Bit(After(fr), i) =
                    IF fr.fn[1] = "set"
                    THEN (IF Bit(Before(fr), i) = 1 \/ Bit(fr.arg, i) = 1 THEN 1 ELSE 0)
                    ELSE (IF Bit(Before(fr), i) = 1 /\ Bit(fr.arg, i) = 0 THEN 1 ELSE 0)

\* a clear on an 8-bit word removed some bits and kept others
C5_Witness ==
    \E fr \in DoneFrames :
        /\ fr.fn = <<"clear", "", "char">>
        /\ fr.wrote
        /\ After(fr) # Before(fr)
        /\ After(fr) # <<0>>


\* the 16-bit half k (1 the lower) of a 4-byte word, and of a signed int
Half(w, k) == w[2 * k - 1] + 256 * w[2 * k]
IntHalf(n, k) == IF k = 1 THEN n % 65536 ELSE (n \div 65536) % 65536

\* r = a + b modulo 2^32, where b is given by its two halves
IsSum32(a, b1, b2, r) ==
    /\ Half(r, 1) = (Half(a, 1) + b1) % 65536
    /\ Half(r, 2) = (Half(a, 2) + b2 + (Half(a, 1) + b1) \div 65536) % 65536

\* C7: fetch-add and fetch-subtract complete for every argument, return the
\* value the word held right before and leave old + v, respectively old - v,
\* modulo 2^32 (r = old - v exactly when r + v = old)
C7_FetchAddSubtract ==
    /\ \A t \in Threads : pc[t] # "trapped"
    /\ \A fr \in DoneFrames :
         fr.fn[1] \in {"fetchadd", "fetchsubtract"} =>
            /\ fr.wrote
            /\ fr.rts = fr.wts - 1
            /\ fr.ret = Before(fr)
            /\ Len(After(fr)) = 4
            /\ IF fr.fn[1] = "fetchadd"
               THEN IsSum32(Before(fr), Half(fr.arg, 1), Half(fr.arg, 2), After(fr))
               ELSE IsSum32(After(fr), IntHalf(fr.arg, 1), IntHalf(fr.arg, 2), Before(fr))

\* C7 without the completion of the call: whatever fetch-add or
\* fetch-subtract performed has the claimed result
C7_WhenPerformed ==
    \A fr \in DoneFrames :
         fr.fn[1] \in {"fetchadd", "fetchsubtract"} =>
            /\ fr.ret = Before(fr)
            /\ IF fr.fn[1] = "fetchadd"
               THEN IsSum32(Before(fr), Half(fr.arg, 1), Half(fr.arg, 2), After(fr))
               ELSE IsSum32(After(fr), IntHalf(fr.arg, 1), IntHalf(fr.arg, 2), Before(fr))

\* C8: every operation other than load-acquire and store-release is
\* performed with sequentially consistent ordering, whatever its outcome
C8_AllSeqCst ==
    \A fr \in DoneFrames :
        fr.fn[1] \notin {"load", "store"} => fr.ord = SEQ_CST


\* the function an entry-point name stands for by the naming convention
\* atomic_<op>[_<acq|rel>]_<width>: the same operation with no ordering
\* suffix on the type of that width
CType(w) ==
    CASE w = "8" -> "char" [] w = "16" -> "short" [] w = "32" -> "int"
      [] w \in {"64", "ptr"} -> "long" [] OTHER -> w

PlainSuffix(op) == IF op = "load" THEN "acq" ELSE IF op = "store" THEN "rel" ELSE ""

PlainOf(n) == <<n[1], PlainSuffix(n[1]), CType(n[3])>>

\* the value a frame's built-in read (none for a store)
ReadOf(fr) == IF fr.rts = 0 THEN <<>> ELSE hist[fr.p][fr.rts].val

\* every alias expands to the plain function of its operation and width
AliasesExpandToPlain ==
    \A n \in AliasNames : Resolve(n) = PlainOf(n) /\ PlainOf(n) \in Functions

\* C9: every ordering-suffixed and every width or ptr alias expands to the
\* plain function of its operation and width, and a call through the alias
\* has the result, return value and memory order of the plain function run
\* on the same word value with the same arguments
C9_AliasesEquivalent ==
    /\ AliasesExpandToPlain
    /\ \A fr \in DoneFrames :
         fr.name \in AliasNames =>
            \E neg \in (IF fr.name[1] = "fetchsubtract" THEN NegOutcomes(fr.arg)
                        ELSE { [trap |-> FALSE, val |-> 0] }) :
               LET g == PlainOf(fr.name)
                   e == Effect(g, Enter(g, g, fr.p, fr.arg, fr.src, neg.val), ReadOf(fr))
               IN /\ ~neg.trap
                  /\ e.write = fr.wrote
                  /\ fr.wrote => e.new = After(fr)
                  /\ e.ret = fr.ret
                  /\ e.ord = fr.ord

\* a compare-and-swap called as atomic_cmpset_acq_ptr, which expands through
\* atomic_cmpset_acq_long to atomic_cmpset_long, has succeeded
C9_Witness ==
    \E fr \in DoneFrames :
        /\ fr.name = <<"cmpset", "acq", "ptr">>
        /\ fr.fn = <<"cmpset", "", "long">>
        /\ fr.ret = 1
        /\ After(fr) # Before(fr)

\* the ten operations and the four widths
Operations ==
    {"set", "clear", "add", "subtract", "cmpset", "fetchadd", "fetchsubtract",
     "load", "store", "readandclear"}

Widths == {"8", "16", "32", "64"}

\* operation op can be called at width w
Available(op, w) ==
    LET n == <<op, PlainSuffix(op), w>>
    IN /\ n \in EntryPoints
       /\ Resolve(n) \in Functions
       /\ Resolve(n) = PlainOf(n)

ZeroExtend(w, n) == [i \in 1..n |-> IF i <= Len(w) THEN w[i] ELSE 0]

\* a performed call has the result of the same operation on the 64-bit word
\* holding the same value with the same arguments, cut to the call's width
SameAsAt64(fr) ==
    LET g == <<fr.fn[1], fr.fn[2], "long">>
        n == SizeOf(TypeOf(fr.fn))
        e == Effect(g, Enter(g, g, fr.p, ZeroExtend(fr.arg, 8), ZeroExtend(fr.src, 8), 0),
                    ZeroExtend(ReadOf(fr), 8))
    IN g \in Functions =>
         /\ e.write = fr.wrote
         /\ fr.wrote => Cast(e.new, n) = After(fr)
         /\ e.ord = fr.ord
         /\ IF fr.fn[1] \in {"load", "readandclear"} THEN Cast(e.ret, n) = fr.ret
            ELSE e.ret = fr.ret

\* the operations and widths at which an entry point can be called
AvailableAt == { ow \in Operations \X Widths : Available(ow[1], ow[2]) }

AllReturned == \A t \in Threads : idx[t] = Len(prog[t]) + 1

\* the value words p and q started with
Initial(l) == hist[l][1].val

RECURSIVE CallsFrom(_)
CallsFrom(t) == IF t > NThreads THEN <<>> ELSE prog[t] \o CallsFrom(t + 1)

\* byte k of initial + (every added v) + (the two's complement of every
\* subtracted v), summed as numbers, before carries
RECURSIVE ColumnSum(_, _, _)
ColumnSum(cs, k, i) ==
    IF i > Len(cs) THEN Initial("p")[k]
    ELSE ColumnSum(cs, k, i + 1)
            + (IF cs[i].name[1] = "add" THEN cs[i].a[k]
               ELSE (255 - cs[i].a[k]) + (IF k = 1 THEN 1 ELSE 0))

RECURSIVE ColumnCarry(_, _)
ColumnCarry(cs, k) ==
    IF k = 1 THEN 0
    ELSE (ColumnSum(cs, k - 1, 1) + ColumnCarry(cs, k - 1)) \div 256

\* C6: once all add and subtract calls have returned the word holds
\* (initial + sum of the added v - sum of the subtracted v) mod 2^W, whatever
\* the order in which the calls took effect
C6_AddSubtractSum ==
    AllReturned =>
        /\ Len(Value("p")) = Len(Initial("p"))
        /\ \A k \in 1..Len(Value("p")) :
             Value("p")[k] =
                (ColumnSum(CallsFrom(1), k, 1) + ColumnCarry(CallsFrom(1), k)) % 256

\* all calls have returned, adds and subtracts of different threads took
\* effect alternately, and a 64-bit word ended on a value other than the
\* initial one
C6_Witness ==
    /\ AllReturned
    /\ Len(Value("p")) = 8
    /\ Value("p") # Initial("p")
    /\ \E t \in Threads : rets[t][NCalls].wts - rets[t][1].wts > NCalls - 1
    /\ \E t \in Threads : rets[t][1].fn[1] = "subtract"
    /\ \E t \in Threads : rets[t][1].fn[1] = "add"

\* the frames of thread t's calls whose built-in has taken effect, in
\* program order
FramesOf(t) == IF pc[t] = "performed" THEN Append(rets[t], frame[t]) ELSE rets[t]

\* C3: a thread whose load-acquire of p returned the value thread 1
\* store-released there sees, in every later read, all the writes thread 1
\* made before the store: it reads the last of thread 1's writes to q
C3_MessagePassing ==
    \A t \in Threads \ {1} :
        \A i \in 1..Len(FramesOf(t)), j \in 1..Len(FramesOf(t)) :
            LET ld == FramesOf(t)[i]
                rd == FramesOf(t)[j]
            IN (/\ i < j
                /\ ld.fn[1] = "load" /\ ld.p = "p"
                /\ ld.ret = Small(1, Len(ld.ret))
                /\ rd.p = "q")
               => /\ rd.rts = NCalls + 1
                  /\ rd.ret = hist["q"][NCalls + 1].val

\* a thread read the flag thread 1 stored and then the data thread 1 wrote
\* before it
C3_Witness ==
    \E t \in Threads \ {1} :
        /\ Len(rets[t]) = 2
        /\ rets[t][1].ret = Small(1, Len(rets[t][1].ret))
        /\ rets[t][1].rts = 2
        /\ rets[t][2].ret = hist["q"][NCalls + 1].val
        /\ rets[t][2].ret # Initial("q")


\* thread t's compare-and-swap takes effect and fails in this step
CmpsetFails(t) ==
    /\ pc[t] = "called"
    /\ pc'[t] = "performed"
    /\ frame'[t].fn[1] = "cmpset"
    /\ frame'[t].ret = 0

\* C11: a compare-and-swap that returns false leaves every word as it was,
\* and the value it read goes to the function's local copy of exp only: the
\* caller's exp, the argument of the call, keeps its value
C11_FailedCmpsetChangesNothing ==
    [][\A t \in Threads :
          CmpsetFails(t) =>
             /\ hist' = hist
             /\ prog' = prog
             /\ frame'[t].arg = prog[t][idx[t]].a
             /\ frame'[t].arg = frame[t].arg
             /\ frame'[t].expected = frame'[t].old
             /\ frame'[t].expected # frame'[t].arg]_vars

\* a compare-and-swap has failed on a value another thread stored, which its
\* local copy of exp now holds while the argument is as passed
C11_Witness ==
    \E t \in Threads :
        /\ pc[t] = "performed"
        /\ frame[t].fn[1] = "cmpset"
        /\ frame[t].ret = 0
        /\ frame[t].rts = 2
        /\ frame[t].expected = hist["p"][2].val
        /\ frame[t].arg = prog[t][idx[t]].a
        /\ Len(hist["p"]) = 2

\* C12: no call is cut short, and a thread inside a function can always take
\* its next step itself, whatever the other threads do (the built-in always
\* has a message to read, the return waits for nothing): the operations are
\* total and do not block
C12_TotalNonBlocking ==
    \A t \in Threads :
        /\ pc[t] \in {"idle", "called", "performed"}
        /\ pc[t] = "called" => ReadChoices(t, frame[t].fn, frame[t]) # {}
        /\ pc[t] = "performed" => ENABLED Return(t)


\* the calls, as <<thread, position>>, that have taken effect
Performed == { ti \in Threads \X (1..NCalls) : ti[2] <= Len(FramesOf(ti[1])) }

\* the compare-and-swaps that have returned true
Winners == { ti \in Performed : FramesOf(ti[1])[ti[2]].ret = 1 }

\* C16: of the compare-and-swaps racing with the same expected value on a
\* word that holds it, never more than one returns true, and once all have
\* returned exactly one did
C16_OneWinner ==
    /\ Cardinality(Winners) <= 1
    /\ AllReturned => Cardinality(Winners) = 1
    /\ \A ti \in Performed \ Winners : FramesOf(ti[1])[ti[2]].ret = 0

\* all compare-and-swaps have returned: the first call of a thread other
\* than thread 1 won, thread 1's first call with the same expected value
\* failed and so did the winner's later calls
C16_Witness ==
    /\ AllReturned
    /\ \E t \in Threads \ {1} :
         /\ rets[t][1].ret = 1
         /\ rets[1][1].ret = 0
         /\ rets[1][1].arg = rets[t][1].arg
         /\ rets[1][1].src # rets[1][1].arg
         /\ \A i \in 2..NCalls : rets[t][i].ret = 0

\* the frames, over all threads, of the calls of function kind op that have
\* taken effect, each with its thread and position
FramesDone(op) ==
    { [t |-> ti[1], i |-> ti[2], fr |-> FramesOf(ti[1])[ti[2]]] :
        ti \in { xy \in Performed : prog[xy[1]][xy[2]].name[1] = op } }

\* C17: every bit a set call has put into the word is in the return value
\* of exactly one read-and-clear or still in the word, never both and never
\* in two return values; a bit no call has set is in neither
C17_FlagsDeliveredOnce ==
    LET sets == FramesDone("set")
        racs == FramesDone("readandclear")
        v    == Value("p")
    IN \A k \in 0..(8 * Len(v) - 1) :
         LET isSet == k < NThreads * NCalls /\ \E s \in sets : Bit(s.fr.arg, k) = 1
             got   == { r \in racs : Bit(r.fr.ret, k) = 1 }
         IN Cardinality(got) + Bit(v, k) = IF isSet THEN 1 ELSE 0

\* all calls have returned, two read-and-clears of one consumer returned
\* different nonzero values and every bit that was set has been returned
C17_Witness ==
    /\ AllReturned
    /\ \E t \in Threads :
         /\ rets[t][1].fn[1] = "readandclear"
         /\ rets[t][1].ret # Small(0, Len(rets[t][1].ret))
         /\ rets[t][2].ret # Small(0, Len(rets[t][2].ret))
         /\ rets[t][1].ret # rets[t][2].ret
    /\ Value("p") = Small(0, Len(Value("p")))

\* bit b after the first i calls of thread t run alone on the initial word:
\* the last of these calls whose mask has bit b decides it
RECURSIVE Alone(_, _, _)
Alone(t, b, i) ==
    IF i = 0 THEN Bit(Initial("p"), b)
    ELSE IF Bit(prog[t][i].a, b) = 1
         THEN (IF prog[t][i].name[1] = "set" THEN 1 ELSE 0)
         ELSE Alone(t, b, i - 1)

\* every mask of every thread lies inside the thread's own range
MasksDisjoint ==
    \A t \in Threads : \A i \in 1..Len(prog[t]) :
        \A b \in 0..(8 * Len(prog[t][i].a) - 1) :
            Bit(prog[t][i].a, b) = 1 => b \in RangeOf(t)

\* C18: when every thread sets and clears only bits of its own range, then
\* after all calls the bits of each thread's range are what that thread's
\* calls alone give in program order, and the bits of no range are the
\* initial ones
C18_DisjointMasksIndependent ==
    (AllReturned /\ MasksDisjoint) =>
        \A b \in 0..(8 * Len(Value("p")) - 1) :
            Bit(Value("p"), b) =
                IF \E t \in Threads : b \in RangeOf(t)
                THEN Alone((b \div 2) + 1, b, NCalls)
                ELSE Bit(Initial("p"), b)

\* all calls on an 8-bit word of all ones have returned, the calls of the
\* threads interleaved, every thread cleared a bit of its range that stays
\* cleared or set it again, and the bits outside the ranges are still set
C18_Witness ==
    /\ MasksDisjoint
    /\ AllReturned
    /\ Initial("p") = <<255>>
    /\ Value("p") # <<255>>
    /\ Bit(Value("p"), 7) = 1
    /\ \E t \in Threads : rets[t][NCalls].wts - rets[t][1].wts > NCalls - 1
    /\ \E t \in Threads : rets[t][NCalls].fn[1] = "clear"
    /\ \E t \in Threads : rets[t][NCalls].fn[1] = "set"


\* the digest of the first len bytes of data by a call that runs alone
DigestAlone(data, len) ==
    SHA1_Final(SHA1_Update(SHA1_Init([h |-> <<>>, len |-> 0]), SubSeq(data, 1, len)))

\* C13: two calls of digest on the same input bytes write the same 20 bytes,
\* whatever calls were made before or between them
C13_DigestDeterministic ==
    /\ \A r1 \in results, r2 \in results :
         r1.bytes = r2.bytes => r1.digest = r2.digest
    /\ \A r \in results : Len(r.digest) = SHA_DIGEST_LENGTH
    /\ \A t \in Threads :
         dig[t].at = "finalized" =>
            \A r \in results :
               r.bytes = SubSeq(dig[t].data, 1, dig[t].len) => r.digest = dig[t].out

\* a call has finalised the digest of an input already digested before, after
\* calls on two other inputs had returned
C13_Witness ==
    \E t \in Threads :
        /\ dig[t].at = "finalized"
        /\ Cardinality(results) >= 3
        /\ \E r \in results :
              r.bytes = SubSeq(dig[t].data, 1, dig[t].len) /\ r.digest = dig[t].out

\* C14: with several calls of digest under way at once on buffers of their
\* own, every call writes the digest it would write running alone
C14_DigestsIndependent ==
    /\ \A t \in Threads :
         dig[t].at = "finalized" => dig[t].out = DigestAlone(dig[t].data, dig[t].len)
    /\ \A r \in results : r.digest = DigestAlone(r.bytes, Len(r.bytes))
    /\ \A t \in Threads, u \in Threads :
         (t # u /\ dig[t].at # "idle" /\ dig[u].at # "idle") => CtxOf(t) # CtxOf(u)

\* a call has finalised its digest while another call, on a different
\* input, is between its update and its finalize
C14_Witness ==
    \E t \in Threads, u \in Threads :
        /\ t # u
        /\ dig[t].at = "finalized"
        /\ dig[u].at = "updated"
        /\ SubSeq(dig[t].data, 1, dig[t].len) # SubSeq(dig[u].data, 1, dig[u].len)
        /\ dig[t].out = DigestAlone(dig[t].data, dig[t].len)

\* the library calls of a call of digest on data and len with context c
LibraryCalls(c, data, len) ==
    << [fn |-> "SHA1_Init", c |-> c, bytes |-> <<>>],
       [fn |-> "SHA1_Update", c |-> c, bytes |-> [i \in 1..len |-> data[i]]],
       [fn |-> "SHA1_Final", c |-> c, bytes |-> <<>>] >>

\* how many library calls a call of digest has made at each position
CallsMadeAt(at) ==
    CASE at = "entered" -> 0 [] at = "inited" -> 1 [] at = "updated" -> 2
      [] at = "finalized" -> 3 [] OTHER -> 0

\* C15: the library calls of a call of digest are, in this order, init, one
\* update with all len bytes of the buffer and finalize, all on the call's
\* own context
C15_InitUpdateFinal ==
    \A t \in Threads :
        /\ dig[t].log = SubSeq(LibraryCalls(t, dig[t].data, dig[t].len), 1,
                               CallsMadeAt(dig[t].at))
        /\ dig[t].at = "finalized" => Len(dig[t].out) = SHA_DIGEST_LENGTH
        /\ dig[t].at \in {"idle", "entered", "inited", "updated"} => dig[t].out = <<>>

\* a call of digest on a two-byte buffer has made its three library calls
C15_Witness ==
    \E t \in Threads :
        /\ dig[t].at = "finalized"
        /\ dig[t].len = 2
        /\ Len(dig[t].log) = 3
        /\ dig[t].log[2].bytes = dig[t].data

====
